---- MODULE Spec2Model ----
(***************************************************************************)
(* Kernolog batch manager (src/batchmanager/batchmana.py).                 *)
(*                                                                         *)
(* Three polling workers hand data over through SQLite tables:             *)
(*   stream_logs_thread      -> raw_logs                                   *)
(*   process_logs_thread     -> clean, context_groups   (the Consolidator) *)
(*   batch_management_thread -> batch_1..batch_5, batch_metadata,          *)
(*                              batch_events     (the Rotating Batch Store)*)
(*                                                                         *)
(* Timestamps are counted in tenths of a second.  A raw line is            *)
(* represented by what the Consolidator takes from its text: the masked    *)
(* string and the extracted parameter list.  How a text is masked and its  *)
(* parameters extracted is modelled character by character (SpecMask).     *)
(*                                                                         *)
(* Specifications:                                                         *)
(*   Spec          ingestion and the Consolidator, statement by statement  *)
(*   SpecParse     the Consolidator on a given raw table                   *)
(*   SpecStore     the whole pipeline, the store commit by commit          *)
(*   SpecStoreFair SpecStore with the fairness of the polling loops        *)
(*   SpecRestart   SpecStore with the program stopped and started again    *)
(*   SpecMask      mask_message and extract_params on one line             *)
(***************************************************************************)
EXTENDS Integers, Sequences, FiniteSets, TLC

\* ------------------------------------------------------------------------
\* Configuration (batchmana.py:33-36) and model bounds
\* ------------------------------------------------------------------------
CONTEXT_WINDOW_SECONDS == 10
\* BATCH_SIZE is 100 in the source; the model scales the capacity down.
BATCH_SIZE == 2
NUM_BATCHES == 5
\* LIMIT 1000 of the raw_logs query, scaled down.
FetchLimit == 3
\* Raw lines ingested in the Consolidator specification.
MaxRaw == 4
\* Raw lines ingested in the store specification.
MaxRawStore == 9
\* Times the program is stopped and started again in SpecRestart.
MaxRestarts == 1
\* Rows of the raw table the Consolidator starts from in SpecParse.
MaxRawParse == 3
\* DELETED audit events the model records; the failing rotations after that
\* neither lengthen the audit log nor the rotation history of the model.
MaxDeleted == 3

Window == CONTEXT_WINDOW_SECONDS * 10
Times == {0, Window, Window + 1}
Msgs == {[masked |-> "job <NUM> done", params |-> <<"1">>],
         [masked |-> "job <NUM> done", params |-> <<"2">>]}
\* int(datetime.now().timestamp()) as read by the cycle that creates the
\* first group.
EpochSeconds == {1000}

VARIABLES
  raw,        \* raw_logs: sequence of rows, id = position
  clean,      \* clean: sequence of committed rows, id = position
  groups,     \* context_groups: set of committed rows, keyed by group_id
  ppc,        \* process_logs_thread: "idle" | "write"
  pRows,      \* ids fetched by the current/last Consolidator cycle
  pPlan,      \* groups of the current cycle not yet written
  pAll,       \* history: all groups computed by the current/last cycle
  txClean,    \* clean rows inserted in the open transaction
  txGroups,   \* context_groups rows upserted in the open transaction
  pOutcome,   \* how the last Consolidator cycle ended
  pBeyond,    \* history: the last cycle found a raw id beyond its cursor
  tables,     \* batch_<i>: function from the existing i to the set of clean_id
  meta,       \* batch_metadata: function from batch_id to log_count
  events,     \* batch_events: sequence of rows
  bpc,        \* batch_management_thread: position in the cycle
  bOld,       \* loop variable `old` of shift_batches_down
  bNew,       \* new_logs of the current/last store cycle (set of clean ids)
  bStart,     \* history: tables, metadata and #events when the cycle began
  bRot,       \* history: calls of shift_batches_down in the cycle
  rotHist,    \* history: batch_1's rows at the start of each rotation
  bOutcome,   \* how the last store cycle ended
  bBeyond,    \* history: the last cycle found a clean id beyond its cursor
  bLeak,      \* a failed connection still holds its write transaction
  bCursor,    \* history: the store cursor when the last completed cycle ended
  restarts,   \* history: how often the program was stopped and started again
  mMsg,       \* the text of the raw line being classified
  mMasked,    \* masked = mask_message(rec["message"])
  mParams,    \* params = extract_params(rec["message"])
  mpc         \* classification of the line: "line" | "masked" | "done"

consVars == <<raw, clean, groups, ppc, pRows, pPlan, pAll, txClean, txGroups, pOutcome, pBeyond>>
storeVars == <<tables, meta, events, bpc, bOld, bNew, bStart, bRot, rotHist, bOutcome, bBeyond, bLeak,
               bCursor, restarts>>
maskVars == <<mMsg, mMasked, mParams, mpc>>
vars == <<raw, clean, groups, ppc, pRows, pPlan, pAll, txClean, txGroups, pOutcome, pBeyond,
          tables, meta, events, bpc, bOld, bNew, bStart, bRot, rotHist, bOutcome, bBeyond, bLeak,
          bCursor, restarts,
          mMsg, mMasked, mParams, mpc>>

\* ------------------------------------------------------------------------
\* Helpers
\* ------------------------------------------------------------------------
MaxOf(S) == CHOOSE x \in S : \A y \in S : y <= x
MinOf(S) == CHOOSE x \in S : \A y \in S : x <= y
Min2(a, b) == IF a <= b THEN a ELSE b
Max2(a, b) == IF a >= b THEN a ELSE b
Range(s) == {s[i] : i \in 1..Len(s)}

\* ------------------------------------------------------------------------
\* Module 1: ingestion
\* ------------------------------------------------------------------------
store_logUpsert(message, timestamp) ==
  raw' = IF raw # <<>> /\ raw[Len(raw)].message = message
         THEN [raw EXCEPT ![Len(raw)].timestamp = timestamp]
         ELSE Append(raw, [message |-> message, timestamp |-> timestamp])
\* store_log: INSERT INTO raw_logs (message, timestamp, created_at); commit.
store_log(message, timestamp) ==
  raw' = Append(raw, [message |-> message, timestamp |-> timestamp])

\* ------------------------------------------------------------------------
\* Masking and parameter extraction (batchmana.py:41-45, 199-217)
\* ------------------------------------------------------------------------
\* A text is a sequence of one-character strings.  A pattern is an operator
\* that, for a text s and a position i, gives the position just after the
\* match Python's backtracking matcher finds when it starts at i, or 0.
Digit == {"0", "1", "2", "3", "4", "5", "6", "7", "8", "9"}
HexDigit == Digit \cup {"a", "b", "c", "d", "e", "f", "A", "B", "C", "D", "E", "F"}
Letter ==
  {"a", "b", "c", "d", "e", "f", "g", "h", "i", "j", "k", "l", "m",
   "n", "o", "p", "q", "r", "s", "t", "u", "v", "w", "x", "y", "z",
   "A", "B", "C", "D", "E", "F", "G", "H", "I", "J", "K", "L", "M",
   "N", "O", "P", "Q", "R", "S", "T", "U", "V", "W", "X", "Y", "Z"}
\* \w
WordChar == Letter \cup Digit \cup {"_"}
\* \s (the texts of the model hold no other white space than the blank)
Space == {" "}
\* [\w\-. ]
PathChar == WordChar \cup {"-", ".", " "}

At(s, i) == IF i \in 1..Len(s) THEN s[i] ELSE ""
AllIn(s, i, n, C) == \A k \in 0..(n - 1) : At(s, i + k) \in C
\* \b between the characters i-1 and i
Boundary(s, i) == (At(s, i - 1) \in WordChar) # (At(s, i) \in WordChar)

\* The position after the longest run of characters of C that starts at i.
RunEnd(s, i, C) == MinOf({j \in i..(Len(s) + 1) : At(s, j) \notin C})

\* \d{1,2}, greedy: the ends to try, in the matcher's order.
DigitEnds(s, i) ==
  (IF AllIn(s, i, 2, Digit) THEN <<i + 2>> ELSE <<>>)
  \o (IF At(s, i) \in Digit THEN <<i + 1>> ELSE <<>>)

\* 25[0-5]|2[0-4]\d|1?\d{1,2} : the ends to try, in the matcher's order.
OctetEnds(s, i) ==
  (IF At(s, i) = "2" /\ At(s, i + 1) = "5" /\ At(s, i + 2) \in {"0", "1", "2", "3", "4", "5"}
   THEN <<i + 3>> ELSE <<>>)
  \o (IF At(s, i) = "2" /\ At(s, i + 1) \in {"0", "1", "2", "3", "4"} /\ At(s, i + 2) \in Digit
      THEN <<i + 3>> ELSE <<>>)
  \o (IF At(s, i) = "1" THEN DigitEnds(s, i + 1) ELSE <<>>)
  \o DigitEnds(s, i)

\* k octets end at pos; the rest of (?:\.octet){3}\b, backtracking over the
\* ends of each octet.
RECURSIVE IPv4After(_, _, _)
RECURSIVE IPv4Try(_, _, _, _)
IPv4After(s, pos, k) ==
  IF k = 4 THEN (IF Boundary(s, pos) THEN pos ELSE 0)
  ELSE IF At(s, pos) = "." THEN IPv4Try(s, OctetEnds(s, pos + 1), 1, k + 1)
  ELSE 0
IPv4Try(s, ends, n, k) ==
  IF n > Len(ends) THEN 0
  ELSE LET r == IPv4After(s, ends[n], k)
       IN IF r # 0 THEN r ELSE IPv4Try(s, ends, n + 1, k)

\* \b(?:(?:25[0-5]|2[0-4]\d|1?\d{1,2})(?:\.(?:25[0-5]|2[0-4]\d|1?\d{1,2})){3})\b
IP_V4_RE(s, i) ==
  IF Boundary(s, i) THEN IPv4Try(s, OctetEnds(s, i), 1, 1) ELSE 0

\* [0-9a-fA-F]{1,4}: at pos
HexGroupEnd(s, pos) ==
  LET e == RunEnd(s, pos, HexDigit)
  IN IF e - pos \in 1..4 /\ At(s, e) = ":" THEN e + 1 ELSE 0

\* [0-9a-fA-F]{1,4}\b at pos, greedy
HexTailEnd(s, pos) ==
  LET ns == {n \in 1..4 : AllIn(s, pos, n, HexDigit) /\ Boundary(s, pos + n)}
  IN IF ns = {} THEN 0 ELSE pos + MaxOf(ns)

\* `count` groups end at pos: as many further groups as possible (at most
\* seven), then the tail; fewer groups when the tail fails.
RECURSIVE IPv6From(_, _, _)
IPv6From(s, pos, count) ==
  LET g == HexGroupEnd(s, pos)
      r == IF count < 7 /\ g # 0 THEN IPv6From(s, g, count + 1) ELSE 0
  IN IF r # 0 THEN r
     ELSE IF count >= 2 THEN HexTailEnd(s, pos)
     ELSE 0

\* \b([0-9a-fA-F]{1,4}:){2,7}[0-9a-fA-F]{1,4}\b
IP_V6_RE(s, i) == IF Boundary(s, i) THEN IPv6From(s, i, 0) ELSE 0

\* \d{2}:\d{2}:\d{2}
Clock(s, p) ==
  /\ AllIn(s, p, 2, Digit) /\ At(s, p + 2) = ":"
  /\ AllIn(s, p + 3, 2, Digit) /\ At(s, p + 5) = ":"
  /\ AllIn(s, p + 6, 2, Digit)

\* \d{4}-\d{2}-\d{2}[ T]\d{2}:\d{2}:\d{2}(?:\.\d+)?\b
TimeIso(s, i) ==
  LET p == i + 19
      frac == IF At(s, p) = "." /\ At(s, p + 1) \in Digit THEN RunEnd(s, p + 1, Digit) ELSE 0
  IN IF ~ ( /\ AllIn(s, i, 4, Digit) /\ At(s, i + 4) = "-"
            /\ AllIn(s, i + 5, 2, Digit) /\ At(s, i + 7) = "-"
            /\ AllIn(s, i + 8, 2, Digit) /\ At(s, i + 10) \in {" ", "T"}
            /\ Clock(s, i + 11) )
     THEN 0
     ELSE IF frac # 0 /\ Boundary(s, frac) THEN frac
     ELSE IF Boundary(s, p) THEN p
     ELSE 0

\* \w{3}\s+\d{1,2}\s+\d{2}:\d{2}:\d{2}\b
TimeSyslog(s, i) ==
  LET a == RunEnd(s, i + 3, Space)
      d == RunEnd(s, a, Digit)
      b == RunEnd(s, d, Space)
  IN IF /\ AllIn(s, i, 3, WordChar)
        /\ a > i + 3
        /\ d - a \in {1, 2}
        /\ b > d
        /\ Clock(s, b)
        /\ Boundary(s, b + 8)
     THEN b + 8 ELSE 0

\* \b(?:<iso>|<syslog>)\b
TIMESTAMP_RE(s, i) ==
  IF ~Boundary(s, i) THEN 0
  ELSE IF TimeIso(s, i) # 0 THEN TimeIso(s, i)
  ELSE TimeSyslog(s, i)

\* \b\d+\b
NUMBER_RE(s, i) ==
  LET e == RunEnd(s, i, Digit)
  IN IF Boundary(s, i) /\ e > i /\ Boundary(s, e) THEN e ELSE 0

\* (?:[\w\-. ]+/?)+ from pos, n iterations done
RECURSIVE PathLoop(_, _, _)
PathLoop(s, pos, n) ==
  LET e == RunEnd(s, pos, PathChar)
  IN IF e = pos THEN (IF n >= 1 THEN pos ELSE 0)
     ELSE PathLoop(s, IF At(s, e) = "/" THEN e + 1 ELSE e, n + 1)

\* (/(?:[\w\-. ]+/?)+)
PATH_RE(s, i) == IF At(s, i) = "/" THEN PathLoop(s, i + 1, 0) ELSE 0

\* pats, in the order mask_message and extract_params apply them
PatternNames == <<"IP", "IPV6", "TIME", "PATH", "NUM">>

Match(name, s, i) ==
  CASE name = "IP" -> IP_V4_RE(s, i)
    [] name = "IPV6" -> IP_V6_RE(s, i)
    [] name = "TIME" -> TIMESTAMP_RE(s, i)
    [] name = "PATH" -> PATH_RE(s, i)
    [] name = "NUM" -> NUMBER_RE(s, i)

\* The replacement strings "<IP>", "<IPV6>", "<TIME>", "<PATH>", "<NUM>"
Placeholder(name) ==
  CASE name = "IP" -> <<"<", "I", "P", ">">>
    [] name = "IPV6" -> <<"<", "I", "P", "V", "6", ">">>
    [] name = "TIME" -> <<"<", "T", "I", "M", "E", ">">>
    [] name = "PATH" -> <<"<", "P", "A", "T", "H", ">">>
    [] name = "NUM" -> <<"<", "N", "U", "M", ">">>

\* pattern.search(s, pos): the start of the leftmost match at or after pos,
\* or 0.
Search(name, s, pos) ==
  LET starts == {q \in pos..Len(s) : Match(name, s, q) # 0}
  IN IF starts = {} THEN 0 ELSE MinOf(starts)

\* pattern.sub(placeholder, s): the non-overlapping matches, left to right
RECURSIVE Sub(_, _, _)
Sub(name, s, pos) ==
  LET q == Search(name, s, pos)
  IN IF q = 0 THEN SubSeq(s, pos, Len(s))
     ELSE SubSeq(s, pos, q - 1) \o Placeholder(name) \o Sub(name, s, Match(name, s, q))

\* mask_message: IP, then IPV6, then TIME, then PATH, then NUM
mask_message(msg) ==
  Sub("NUM", Sub("PATH", Sub("TIME", Sub("IPV6", Sub("IP", msg, 1), 1), 1), 1), 1)

\* pattern.finditer(s): (m.start(), name, m.group(0)) of each match
RECURSIVE FindIter(_, _, _)
FindIter(name, s, pos) ==
  LET q == Search(name, s, pos)
      e == Match(name, s, q)
  IN IF q = 0 THEN <<>>
     ELSE <<[start |-> q, type |-> name, value |-> SubSeq(s, q, e - 1)]>>
          \o FindIter(name, s, e)

\* matches.sort(key=lambda x: x[0]) : stable
RECURSIVE InsertByStart(_, _)
InsertByStart(s, m) ==
  IF s = <<>> THEN <<m>>
  ELSE IF s[Len(s)].start <= m.start THEN Append(s, m)
  ELSE Append(InsertByStart(SubSeq(s, 1, Len(s) - 1), m), s[Len(s)])

RECURSIVE SortByStart(_)
SortByStart(s) ==
  IF s = <<>> THEN <<>>
  ELSE InsertByStart(SortByStart(SubSeq(s, 1, Len(s) - 1)), s[Len(s)])

\* The list `matches` of extract_params after its sort.
sorted_matches(msg) ==
  SortByStart(FindIter("IP", msg, 1) \o FindIter("IPV6", msg, 1) \o FindIter("TIME", msg, 1)
              \o FindIter("PATH", msg, 1) \o FindIter("NUM", msg, 1))

\* extract_params: {"type", "value"} of each match, by start offset
extract_params(msg) ==
  LET ms == sorted_matches(msg)
  IN [k \in 1..Len(ms) |-> [type |-> ms[k].type, value |-> ms[k].value]]

\* Texts the model feeds to mask_message and extract_params.
ExampleLine ==
  <<"B", "a", "c", "k", "u", "p", " ", "a", "t", " ",
    "2", "0", "2", "4", "-", "0", "1", "-", "0", "2", " ",
    "0", "3", ":", "0", "4", ":", "0", "5", " ",
    "c", "o", "p", "i", "e", "d", " ", "1", "0", " ",
    "f", "i", "l", "e", "s", " ", "f", "r", "o", "m", " ",
    "/", "v", "a", "r", "/", "l", "o", "g", "/", "a", "p", "p", " ",
    "t", "o", " ", "1", "9", "2", ".", "1", "6", "8", ".", "1", ".", "1">>

Words ==
  { <<"u", "p">>,
    <<"1", "0">>,
    <<"2", "0", "2", "4", "-", "0", "1", "-", "0", "2">>,
    <<"0", "3", ":", "0", "4", ":", "0", "5">>,
    <<"2", "0", "2", "4", "-", "0", "1", "-", "0", "2", "T", "0", "3", ":", "0", "4", ":", "0", "5", ".", "1", "2">>,
    <<"/", "v", "a", "r", "/", "l", "o", "g">>,
    <<"1", "9", "2", ".", "1", "6", "8", ".", "1", ".", "1">> }

\* Words of a generated line.
MaxWords == 3

RECURSIVE JoinWords(_)
JoinWords(ws) ==
  IF Len(ws) = 1 THEN ws[1] ELSE ws[1] \o <<" ">> \o JoinWords(Tail(ws))

Lines ==
  {ExampleLine} \cup
  {JoinWords(ws) : ws \in UNION {[1..n -> Words] : n \in 1..MaxWords}}

\* Lines 251-255 for one line: masked = mask_message(rec["message"])
MaskLine ==
  /\ mpc = "line"
  /\ mMasked' = mask_message(mMsg)
  /\ mpc' = "masked"
  /\ UNCHANGED <<mMsg, mParams>>
  /\ UNCHANGED consVars
  /\ UNCHANGED storeVars

\* ... params = extract_params(rec["message"])
ExtractLine ==
  /\ mpc = "masked"
  /\ mParams' = extract_params(mMsg)
  /\ mpc' = "done"
  /\ UNCHANGED <<mMsg, mMasked>>
  /\ UNCHANGED consVars
  /\ UNCHANGED storeVars

\* ------------------------------------------------------------------------
\* Module 2: the Consolidator (process_logs_thread)
\* ------------------------------------------------------------------------
\* SELECT MAX(original_id) FROM clean ... or 0
last_processed(cl) ==
  IF cl = <<>> THEN 0 ELSE MaxOf({cl[i].original_id : i \in 1..Len(cl)})

RawBeyondGe(id, last) == id >= last
\* WHERE id > ?
RawBeyond(id, last) == id > last

\* ORDER BY timestamp ASC; equal timestamps come in rowid order.
TsBefore(rw, i, j) ==
  \/ rw[i].timestamp < rw[j].timestamp
  \/ rw[i].timestamp = rw[j].timestamp /\ i < j

RECURSIVE OrderByTimestamp(_, _)
OrderByTimestamp(S, rw) ==
  IF S = {} THEN <<>>
  ELSE LET m == CHOOSE i \in S : \A j \in S \ {i} : TsBefore(rw, i, j)
       IN <<m>> \o OrderByTimestamp(S \ {m}, rw)

\* SELECT ... FROM raw_logs WHERE id > ? ORDER BY timestamp ASC LIMIT 1000
FetchRows(rw, last) ==
  LET s == OrderByTimestamp({i \in 1..Len(rw) : RawBeyond(i, last)}, rw)
  IN SubSeq(s, 1, Min2(Len(s), FetchLimit))

\* miner.add_log_message(masked): cluster id and template of a masked string
\* (one cluster per masked string; the template is the masked string).
Classify(masked) == [cluster_id |-> 1, template |-> masked]

\* A stored timestamp parse_timestamp cannot convert (a value
\* datetime.fromtimestamp rejects).  store_log converts the timestamp itself
\* before its INSERT, so only a row written by something else carries one.
BadTime == 99999
None == -1

\* parse_timestamp: the instant, or None when every conversion raises
parse_timestamp(ts_str) == IF ts_str = BadTime THEN None ELSE ts_str

\* datetime.now() in tenths of a second, for the clock reading `now`
NowTicks(now) == now * 10

\* ts = parse_timestamp(r["timestamp"] or r["created_at"]) or datetime.now()
\* (created_at is store_log's rendering of the same instant)
RecordTs(ts_str, now) ==
  IF parse_timestamp(ts_str) # None THEN parse_timestamp(ts_str) ELSE NowTicks(now)

\* One entry of `processed` for raw row i.
ProcessedRec(rw, i, now) ==
  [original_id |-> i,
   template    |-> Classify(rw[i].message.masked).template,
   template_id |-> Classify(rw[i].message.masked).cluster_id,
   params      |-> rw[i].message.params,
   timestamp   |-> RecordTs(rw[i].timestamp, now),
   raw         |-> rw[i].message]

\* processed.sort(key=lambda x: x["timestamp"]) : stable insertion sort.
RECURSIVE InsertByTs(_, _)
InsertByTs(s, p) ==
  IF s = <<>> THEN <<p>>
  ELSE IF s[Len(s)].timestamp <= p.timestamp THEN Append(s, p)
  ELSE Append(InsertByTs(SubSeq(s, 1, Len(s) - 1), p), s[Len(s)])

RECURSIVE SortByTs(_)
SortByTs(s) ==
  IF s = <<>> THEN <<>>
  ELSE InsertByTs(SortByTs(SubSeq(s, 1, Len(s) - 1)), s[Len(s)])

ProcessedSkipUnparsed(rw, rows, now) ==
  SortByTs(SelectSeq([k \in 1..Len(rows) |-> ProcessedRec(rw, rows[k], now)],
                     LAMBDA p : parse_timestamp(rw[p.original_id].timestamp) # None))
\* records and processed, lines 246-267: every fetched row, sorted
Processed(rw, rows, now) ==
  SortByTs([k \in 1..Len(rows) |-> ProcessedRec(rw, rows[k], now)])

InWindowPrev(ts, start_time, prev_ts) == ts - prev_ts <= Window
\* (p["timestamp"] - start_time).total_seconds() <= CONTEXT_WINDOW_SECONDS
InWindow(ts, start_time, prev_ts) == ts - start_time <= Window

\* The grouping loop: `current` is the open group, start_time its first
\* record's timestamp.
RECURSIVE SplitGroups(_, _, _, _)
SplitGroups(ps, k, current, start_time) ==
  IF k > Len(ps)
  THEN (IF current # <<>> THEN <<current>> ELSE <<>>)
  ELSE LET p == ps[k] IN
       IF current = <<>>
       THEN SplitGroups(ps, k + 1, <<p>>, p.timestamp)
       ELSE IF InWindow(p.timestamp, start_time, current[Len(current)].timestamp)
            THEN SplitGroups(ps, k + 1, Append(current, p), start_time)
            ELSE <<current>> \o SplitGroups(ps, k + 1, <<p>>, p.timestamp)

GidSeedClock(grp, now) == now
\* gid_seq = (last_gid + 1) if last_gid else int(datetime.now().timestamp())
GidSeed(grp, now) ==
  IF grp = {} THEN now
  ELSE LET last_gid == MaxOf({g.group_id : g \in grp})
       IN IF last_gid # 0 THEN last_gid + 1 ELSE now

\* groups: list of (gid, records)
PlanGroups(rw, rows, grp, now) ==
  LET parts == SplitGroups(Processed(rw, rows, now), 1, <<>>, 0)
  IN [k \in 1..Len(parts) |-> [gid |-> GidSeed(grp, now) + k - 1, recs |-> parts[k]]]

DedupKey(r) == <<r.template_id, r.template, r.params>>

\* The dedup dictionary of one group, in insertion order.
RECURSIVE Dedup(_, _, _)
Dedup(recs, k, acc) ==
  IF k > Len(recs) THEN acc
  ELSE LET r == recs[k]
           hit == {i \in 1..Len(acc) : acc[i].key = DedupKey(r)}
       IN IF hit = {}
          THEN Dedup(recs, k + 1,
                 Append(acc, [key |-> DedupKey(r), original_ids |-> <<r.original_id>>,
                              count |-> 1, first_seen |-> r.timestamp,
                              last_seen |-> r.timestamp, sample_message |-> r.raw]))
          ELSE LET i == CHOOSE i \in hit : TRUE
               IN Dedup(recs, k + 1,
                    [acc EXCEPT ![i] =
                       [@ EXCEPT !.original_ids = Append(@, r.original_id),
                                 !.count = @ + 1,
                                 !.first_seen = Min2(@, r.timestamp),
                                 !.last_seen = Max2(@, r.timestamp)]])

\* The rows INSERTed INTO clean for one group.  original_ids is the
\* in-memory list d["original_ids"]; only its first element is stored.
CleanRowsOf(g) ==
  LET d == Dedup(g.recs, 1, <<>>)
  IN [i \in 1..Len(d) |->
        [original_id |-> d[i].original_ids[1], group_id |-> g.gid,
         template_id |-> d[i].key[1], template |-> d[i].key[2], params |-> d[i].key[3],
         count |-> d[i].count, first_seen |-> d[i].first_seen,
         last_seen |-> d[i].last_seen, sample_message |-> d[i].sample_message,
         original_ids |-> d[i].original_ids]]

GroupRowOfDistinct(g) ==
  [group_id |-> g.gid,
   first_seen |-> MinOf({g.recs[i].timestamp : i \in 1..Len(g.recs)}),
   last_seen |-> MaxOf({g.recs[i].timestamp : i \in 1..Len(g.recs)}),
   unique_templates |-> Len(Dedup(g.recs, 1, <<>>)),
   total_messages |-> Len(Dedup(g.recs, 1, <<>>))]
\* The row INSERT OR REPLACEd INTO context_groups for one group.
GroupRowOf(g) ==
  [group_id |-> g.gid,
   first_seen |-> MinOf({g.recs[i].timestamp : i \in 1..Len(g.recs)}),
   last_seen |-> MaxOf({g.recs[i].timestamp : i \in 1..Len(g.recs)}),
   unique_templates |-> Len(Dedup(g.recs, 1, <<>>)),
   total_messages |-> Len(g.recs)]

\* INSERT OR REPLACE keyed by group_id
Upsert(grp, row) == {g \in grp : g.group_id # row.group_id} \cup {row}

RECURSIVE UpsertAll(_, _)
UpsertAll(grp, rows) ==
  IF rows = <<>> THEN grp ELSE UpsertAll(Upsert(grp, Head(rows)), Tail(rows))

RECURSIVE AllCleanRows(_)
AllCleanRows(plan) ==
  IF plan = <<>> THEN <<>> ELSE CleanRowsOf(Head(plan)) \o AllCleanRows(Tail(plan))

AllGroupRows(plan) == [k \in 1..Len(plan) |-> GroupRowOf(plan[k])]

\* Lines 232-285: read the cursor, fetch, classify, sort and partition.
ProcFetch ==
  /\ ppc = "idle"
  /\ pBeyond' = (\E i \in 1..Len(raw) : i > last_processed(clean))
  /\ LET rows == FetchRows(raw, last_processed(clean)) IN
       /\ pRows' = rows
       /\ IF rows = <<>>
          THEN /\ pOutcome' = "noop"
               /\ UNCHANGED <<ppc, pPlan, pAll>>
          ELSE /\ \E now \in EpochSeconds : pPlan' = PlanGroups(raw, rows, groups, now)
               /\ pAll' = pPlan'
               /\ ppc' = "write"
               /\ pOutcome' = "none"
  /\ txClean' = <<>>
  /\ txGroups' = <<>>
  /\ UNCHANGED <<raw, clean, groups>>
  /\ UNCHANGED storeVars
  /\ UNCHANGED maskVars

ProcWriteGroupAutocommit ==
  /\ ppc = "write"
  /\ pPlan # <<>>
  /\ clean' = clean \o CleanRowsOf(Head(pPlan))
  /\ groups' = Upsert(groups, GroupRowOf(Head(pPlan)))
  /\ pPlan' = Tail(pPlan)
  /\ UNCHANGED <<raw, txClean, txGroups, ppc, pRows, pAll, pOutcome, pBeyond>>
  /\ UNCHANGED storeVars
  /\ UNCHANGED maskVars

\* Lines 287-318, one iteration: the INSERTs of one group, uncommitted.
ProcWriteGroup ==
  /\ ppc = "write"
  /\ pPlan # <<>>
  /\ txClean' = txClean \o CleanRowsOf(Head(pPlan))
  /\ txGroups' = Append(txGroups, GroupRowOf(Head(pPlan)))
  /\ pPlan' = Tail(pPlan)
  /\ UNCHANGED <<raw, clean, groups, ppc, pRows, pAll, pOutcome, pBeyond>>
  /\ UNCHANGED storeVars
  /\ UNCHANGED maskVars

\* Line 320: db.commit()
ProcCommit ==
  /\ ppc = "write"
  /\ pPlan = <<>>
  /\ clean' = clean \o txClean
  /\ groups' = UpsertAll(groups, txGroups)
  /\ txClean' = <<>>
  /\ txGroups' = <<>>
  /\ ppc' = "idle"
  /\ pOutcome' = "committed"
  /\ UNCHANGED <<raw, pRows, pPlan, pAll, pBeyond>>
  /\ UNCHANGED storeVars
  /\ UNCHANGED maskVars

\* Lines 323-324 (or a crash): an exception before the commit; the open
\* transaction is rolled back when the connection goes away.
ProcFail ==
  /\ ppc = "write"
  /\ txClean' = <<>>
  /\ txGroups' = <<>>
  /\ pPlan' = <<>>
  /\ ppc' = "idle"
  /\ pOutcome' = "failed"
  /\ UNCHANGED <<raw, clean, groups, pRows, pAll, pBeyond>>
  /\ UNCHANGED storeVars
  /\ UNCHANGED maskVars

\* stream_logs_thread, one line: any message, any timestamp.
Ingest ==
  /\ Len(raw) < MaxRaw
  /\ \E m \in Msgs, t \in Times : store_log(m, t)
  /\ UNCHANGED <<clean, groups, ppc, pRows, pPlan, pAll, txClean, txGroups, pOutcome, pBeyond>>
  /\ UNCHANGED storeVars
  /\ UNCHANGED maskVars

\* The whole Consolidator cycle as one step (its writes become visible
\* together at the commit of line 320).
ProcessCycle ==
  /\ ppc = "idle"
  /\ pBeyond' = (\E i \in 1..Len(raw) : i > last_processed(clean))
  /\ LET rows == FetchRows(raw, last_processed(clean)) IN
       /\ pRows' = rows
       /\ IF rows = <<>>
          THEN /\ pOutcome' = "noop"
               /\ UNCHANGED <<clean, groups, pAll>>
          ELSE \E now \in EpochSeconds :
                 LET plan == PlanGroups(raw, rows, groups, now) IN
                   /\ clean' = clean \o AllCleanRows(plan)
                   /\ groups' = UpsertAll(groups, AllGroupRows(plan))
                   /\ pAll' = plan
                   /\ pOutcome' = "committed"
  /\ UNCHANGED <<raw, ppc, pPlan, txClean, txGroups>>
  /\ UNCHANGED storeVars
  /\ UNCHANGED maskVars

\* ------------------------------------------------------------------------
\* Module 3: the Rotating Batch Store (batch_management_thread)
\* ------------------------------------------------------------------------
\* SELECT MAX(clean_id) FROM batch_1 ... or 0
last_id(tb) == IF tb[1] = {} THEN 0 ELSE MaxOf(tb[1])

\* FROM clean WHERE id > ?
CleanBeyond(id, last) == id > last

new_logs(cl, last) == {i \in 1..Len(cl) : CleanBeyond(i, last)}

\* SELECT log_count FROM batch_metadata WHERE batch_id = ? ; row[0] if row else 0
log_count(mt, b) == IF b \in DOMAIN mt THEN mt[b] ELSE 0

OverflowBatchOnly(count, n) == n > BATCH_SIZE
\* batch1_count + len(new_logs) > BATCH_SIZE
Overflow(count, n) == count + n > BATCH_SIZE

\* log_batch_event: one row of batch_events
BatchEvent(event_type, batch_id, count) ==
  [event_type |-> event_type, batch_id |-> batch_id, count |-> count]

DropTable(tb, i) == [j \in DOMAIN tb \ {i} |-> tb[j]]
RenameTable(tb, old, new) ==
  [j \in (DOMAIN tb \ {old}) \cup {new} |-> IF j = new THEN tb[old] ELSE tb[j]]
CreateTable(tb, i) == [j \in DOMAIN tb \cup {i} |-> IF j = i THEN {} ELSE tb[j]]
\* UPDATE batch_metadata SET batch_id = new WHERE batch_id = old
MoveMeta(mt, old, new) ==
  IF old \in DOMAIN mt
  THEN [j \in (DOMAIN mt \ {old}) \cup {new} |-> IF j = new THEN mt[old] ELSE mt[j]]
  ELSE mt
\* the UPDATE / INSERT of add_logs_to_batch on batch_metadata
AddMeta(mt, b, n) ==
  [j \in DOMAIN mt \cup {b} |-> IF j = b THEN log_count(mt, b) + n ELSE mt[j]]

NumDeleted == Cardinality({k \in 1..Len(events) : events[k].event_type = "DELETED"})
\* The audit log and the rotation history are still being recorded.
Recording == NumDeleted < MaxDeleted

InsertRowsNext(tb, b, rows) == [tb EXCEPT ![b + 1] = @ \cup rows]
\* executemany INSERT INTO batch_{batch_id}
InsertRows(tb, b, rows) == [tb EXCEPT ![b] = @ \cup rows]

\* The cycle ends in the except clause of line 438.
CycleError(leak) ==
  /\ bpc' = "idle"
  /\ bOutcome' = "error"
  /\ bLeak' = leak
  /\ bOld' = 0

\* Lines 408-423: read the cursor and the new clean rows, test the capacity.
BatchFetch ==
  /\ bpc = "idle"
  /\ bNew' = new_logs(clean, last_id(tables))
  /\ bBeyond' = (\E i \in 1..Len(clean) : i > last_id(tables))
  /\ bStart' = [tables |-> tables, meta |-> meta, events |-> events]
  /\ IF bNew' = {}
     THEN /\ bOutcome' = "noop"
          /\ bRot' = 0
          /\ bCursor' = last_id(tables)
          /\ UNCHANGED bpc
     ELSE /\ bOutcome' = "none"
          /\ UNCHANGED bCursor
          /\ IF Overflow(log_count(meta, 1), Cardinality(bNew'))
             THEN bpc' = "shift_drop" /\ bRot' = 1
             ELSE bpc' = "add" /\ bRot' = 0
  /\ UNCHANGED <<tables, meta, events, bOld, rotHist, bLeak>>
  /\ UNCHANGED restarts
  /\ UNCHANGED consVars
  /\ UNCHANGED maskVars

\* Lines 341-344: DROP TABLE IF EXISTS batch_5.  While a failed connection
\* still holds its write transaction the statement ends in `database is
\* locked`.
ShiftDrop ==
  /\ bpc = "shift_drop"
  /\ IF bLeak
     THEN /\ CycleError(bLeak)
          /\ UNCHANGED <<tables, rotHist>>
     ELSE /\ tables' = DropTable(tables, NUM_BATCHES)
          /\ rotHist' = IF Recording THEN Append(rotHist, tables[1]) ELSE rotHist
          /\ bpc' = IF log_count(meta, NUM_BATCHES) > 0 THEN "shift_deleted" ELSE "shift_rename"
          /\ bOld' = NUM_BATCHES - 1
          /\ UNCHANGED <<bOutcome, bLeak>>
  /\ UNCHANGED <<meta, events, bNew, bStart, bRot, bBeyond>>
  /\ UNCHANGED <<bCursor, restarts>>
  /\ UNCHANGED consVars
  /\ UNCHANGED maskVars

\* Lines 345-346: if deleted_count > 0: log_batch_event(DELETED)
ShiftDeleted ==
  /\ bpc = "shift_deleted"
  /\ events' = IF Recording
               THEN Append(events, BatchEvent("DELETED", NUM_BATCHES, log_count(meta, NUM_BATCHES)))
               ELSE events
  /\ bpc' = "shift_rename"
  /\ UNCHANGED <<tables, meta, bOld, bNew, bStart, bRot, rotHist, bOutcome, bBeyond, bLeak>>
  /\ UNCHANGED <<bCursor, restarts>>
  /\ UNCHANGED consVars
  /\ UNCHANGED maskVars

\* Line 351: ALTER TABLE batch_{old} RENAME TO batch_{new}
ShiftRename ==
  /\ bpc = "shift_rename"
  /\ IF bOld \notin DOMAIN tables \/ (bOld + 1) \in DOMAIN tables
     THEN /\ CycleError(bLeak)
          /\ UNCHANGED tables
     ELSE /\ tables' = RenameTable(tables, bOld, bOld + 1)
          /\ bpc' = "shift_meta"
          /\ UNCHANGED <<bOld, bOutcome, bLeak>>
  /\ UNCHANGED <<meta, events, bNew, bStart, bRot, rotHist, bBeyond>>
  /\ UNCHANGED <<bCursor, restarts>>
  /\ UNCHANGED consVars
  /\ UNCHANGED maskVars

\* Lines 352-357: UPDATE batch_metadata SET batch_id = new; batch_id is the
\* primary key, so the UPDATE fails when a row `new` exists.  Then
\* log_batch_event(MOVED) commits both.
ShiftMeta ==
  /\ bpc = "shift_meta"
  /\ IF bOld \in DOMAIN meta /\ (bOld + 1) \in DOMAIN meta
     THEN /\ CycleError(TRUE)
          /\ UNCHANGED <<meta, events>>
     ELSE /\ meta' = MoveMeta(meta, bOld, bOld + 1)
          /\ events' = Append(events, BatchEvent("MOVED", bOld + 1, 0))
          /\ IF bOld = 1
             THEN bpc' = "shift_create" /\ bOld' = 0
             ELSE bpc' = "shift_rename" /\ bOld' = bOld - 1
          /\ UNCHANGED <<bOutcome, bLeak>>
  /\ UNCHANGED <<tables, bNew, bStart, bRot, rotHist, bBeyond>>
  /\ UNCHANGED <<bCursor, restarts>>
  /\ UNCHANGED consVars
  /\ UNCHANGED maskVars

\* Lines 360-374: CREATE TABLE batch_1
ShiftCreate ==
  /\ bpc = "shift_create"
  /\ IF 1 \in DOMAIN tables
     THEN /\ CycleError(bLeak)
          /\ UNCHANGED tables
     ELSE /\ tables' = CreateTable(tables, 1)
          /\ bpc' = "add"
          /\ UNCHANGED <<bOld, bOutcome, bLeak>>
  /\ UNCHANGED <<meta, events, bNew, bStart, bRot, rotHist, bBeyond>>
  /\ UNCHANGED <<bCursor, restarts>>
  /\ UNCHANGED consVars
  /\ UNCHANGED maskVars

\* Lines 376-401: INSERT the rows (clean_id is the primary key), update or
\* create the metadata row of batch 1, commit.
AddLogs ==
  /\ bpc = "add"
  /\ IF bLeak \/ 1 \notin DOMAIN tables
     THEN /\ CycleError(bLeak)
          /\ UNCHANGED <<tables, meta>>
     ELSE IF bNew \cap tables[1] # {}
     THEN /\ CycleError(TRUE)
          /\ UNCHANGED <<tables, meta>>
     ELSE /\ tables' = InsertRows(tables, 1, bNew)
          /\ meta' = AddMeta(meta, 1, Cardinality(bNew))
          /\ bpc' = "add_event"
          /\ UNCHANGED <<bOld, bOutcome, bLeak>>
  /\ UNCHANGED <<events, bNew, bStart, bRot, rotHist, bBeyond>>
  /\ UNCHANGED <<bCursor, restarts>>
  /\ UNCHANGED consVars
  /\ UNCHANGED maskVars

\* Line 402: log_batch_event(LOADED)
AddEvent ==
  /\ bpc = "add_event"
  /\ events' = Append(events, BatchEvent("LOADED", 1, Cardinality(bNew)))
  /\ bpc' = "idle"
  /\ bOutcome' = "loaded"
  /\ bCursor' = last_id(tables)
  /\ UNCHANGED <<tables, meta, bOld, bNew, bStart, bRot, rotHist, bBeyond, bLeak>>
  /\ UNCHANGED restarts
  /\ UNCHANGED consVars
  /\ UNCHANGED maskVars

\* The connection of a failed cycle is finalised by the garbage collector;
\* its open transaction is rolled back and the lock released.
BatchGC ==
  /\ bLeak
  /\ bLeak' = FALSE
  /\ UNCHANGED <<tables, meta, events, bpc, bOld, bNew, bStart, bRot, rotHist, bOutcome, bBeyond>>
  /\ UNCHANGED <<bCursor, restarts>>
  /\ UNCHANGED consVars
  /\ UNCHANGED maskVars

\* stream_logs_thread in the store specification: one message, each line
\* more than a window after the previous one.
IngestSpaced ==
  /\ Len(raw) < MaxRawStore
  /\ store_log(CHOOSE m \in Msgs : m.params = <<"1">>, Len(raw) * (Window + 1))
  /\ UNCHANGED <<clean, groups, ppc, pRows, pPlan, pAll, txClean, txGroups, pOutcome, pBeyond>>
  /\ UNCHANGED storeVars
  /\ UNCHANGED maskVars

InitPipeline ==
  /\ raw = <<>>
  /\ clean = <<>>
  /\ groups = {}
  /\ ppc = "idle"
  /\ pRows = <<>>
  /\ pPlan = <<>>
  /\ pAll = <<>>
  /\ txClean = <<>>
  /\ txGroups = <<>>
  /\ pOutcome = "none"
  /\ pBeyond = FALSE
  /\ tables = [i \in 1..NUM_BATCHES |-> {}]
  /\ meta = <<>>
  /\ events = <<>>
  /\ bpc = "idle"
  /\ bOld = 0
  /\ bNew = {}
  /\ bStart = [tables |-> [i \in 1..NUM_BATCHES |-> {}], meta |-> <<>>, events |-> <<>>]
  /\ bRot = 0
  /\ rotHist = <<>>
  /\ bOutcome = "none"
  /\ bBeyond = FALSE
  /\ bLeak = FALSE
  /\ bCursor = 0
  /\ restarts = 0

\* No line is being classified.
Init ==
  /\ InitPipeline
  /\ mMsg = <<>>
  /\ mMasked = <<>>
  /\ mParams = <<>>
  /\ mpc = "done"

\* One line, any text of Lines, is about to be classified.
InitMask ==
  /\ InitPipeline
  /\ mMsg \in Lines
  /\ mMasked = <<>>
  /\ mParams = <<>>
  /\ mpc = "line"

\* Ingestion and the Consolidator, statement by statement.
Next ==
  \/ Ingest
  \/ ProcFetch
  \/ ProcWriteGroup
  \/ ProcCommit
  \/ ProcFail

Spec == Init /\ [][Next]_vars

\* The whole pipeline: spaced ingestion, Consolidator cycles, and the store
\* commit by commit.
NextStore ==
  \/ IngestSpaced
  \/ ProcessCycle
  \/ BatchFetch
  \/ ShiftDrop
  \/ ShiftDeleted
  \/ ShiftRename
  \/ ShiftMeta
  \/ ShiftCreate
  \/ AddLogs
  \/ AddEvent
  \/ BatchGC

SpecStore == Init /\ [][NextStore]_vars

\* The raw table as the Consolidator may find it at start: rows with any
\* message and any timestamp, convertible or not.
RawTables ==
  UNION {[1..n -> [message : Msgs, timestamp : Times \cup {BadTime}]] : n \in 1..MaxRawParse}

InitParse ==
  /\ raw \in RawTables
  /\ clean = <<>>
  /\ groups = {}
  /\ ppc = "idle"
  /\ pRows = <<>>
  /\ pPlan = <<>>
  /\ pAll = <<>>
  /\ txClean = <<>>
  /\ txGroups = <<>>
  /\ pOutcome = "none"
  /\ pBeyond = FALSE
  /\ tables = [i \in 1..NUM_BATCHES |-> {}]
  /\ meta = <<>>
  /\ events = <<>>
  /\ bpc = "idle"
  /\ bOld = 0
  /\ bNew = {}
  /\ bStart = [tables |-> [i \in 1..NUM_BATCHES |-> {}], meta |-> <<>>, events |-> <<>>]
  /\ bRot = 0
  /\ rotHist = <<>>
  /\ bOutcome = "none"
  /\ bBeyond = FALSE
  /\ bLeak = FALSE
  /\ bCursor = 0
  /\ restarts = 0
  /\ mMsg = <<>>
  /\ mMasked = <<>>
  /\ mParams = <<>>
  /\ mpc = "done"

\* The Consolidator alone, statement by statement, on a given raw table.
NextParse ==
  \/ ProcFetch
  \/ ProcWriteGroup
  \/ ProcCommit
  \/ ProcFail

SpecParse == InitParse /\ [][NextParse]_vars

\* The classification of one line.
NextMask ==
  \/ MaskLine
  \/ ExtractLine

SpecMask == InitMask /\ [][NextMask]_vars

\* One step of batch_management_thread.
StoreStep ==
  \/ BatchFetch
  \/ ShiftDrop
  \/ ShiftDeleted
  \/ ShiftRename
  \/ ShiftMeta
  \/ ShiftCreate
  \/ AddLogs
  \/ AddEvent

\* No raw row waits beyond the Consolidator's cursor.
ConsolidatorCaughtUp == \A i \in 1..Len(raw) : i <= last_processed(clean)

\* The polling loops never end (while True ... time.sleep): the store keeps
\* taking steps, a dropped connection is eventually finalised, and the
\* Consolidator, whose cycle is always enabled, is never behind for ever.
\* Nothing obliges the source of log lines to go on.
SpecStoreFair ==
  /\ Init
  /\ [][NextStore]_vars
  /\ WF_vars(StoreStep)
  /\ WF_vars(BatchGC)
  /\ []<>ConsolidatorCaughtUp

\* CREATE TABLE IF NOT EXISTS batch_{i} for i in 1..NUM_BATCHES
init_database(tb) ==
  [i \in 1..NUM_BATCHES |-> IF i \in DOMAIN tb THEN tb[i] ELSE {}]

\* The program is stopped (Ctrl+C ends main and with it the daemon threads,
\* a kill, a power cut) while the store is between the rotation, if the
\* cycle had one, and the load, and is started again: what was committed
\* stays, open transactions and locks are gone, main() runs init_database
\* and starts the three threads at the top of their loops.
Restart ==
  /\ restarts < MaxRestarts
  /\ bpc = "add"
  /\ restarts' = restarts + 1
  /\ tables' = init_database(tables)
  /\ bpc' = "idle"
  /\ bOld' = 0
  /\ bLeak' = FALSE
  /\ bOutcome' = "crashed"
  /\ ppc' = "idle"
  /\ pPlan' = <<>>
  /\ txClean' = <<>>
  /\ txGroups' = <<>>
  /\ UNCHANGED <<meta, events, bNew, bStart, bRot, rotHist, bBeyond, bCursor>>
  /\ UNCHANGED <<raw, clean, groups, pRows, pAll, pOutcome, pBeyond>>
  /\ UNCHANGED maskVars

\* The whole pipeline, stopped before a load and started again.
NextRestart ==
  \/ IngestSpaced
  \/ ProcessCycle
  \/ BatchFetch
  \/ ShiftDrop
  \/ ShiftDeleted
  \/ ShiftRename
  \/ ShiftMeta
  \/ ShiftCreate
  \/ AddLogs
  \/ AddEvent
  \/ BatchGC
  \/ Restart

SpecRestart == Init /\ [][NextRestart]_vars


\* ------------------------------------------------------------------------
\* Properties of the Rotating Batch Store (checked under SpecStore)
\* ------------------------------------------------------------------------
\* A store cycle that fetched something has run to its end.
CycleEnded == bpc = "idle" /\ bOutcome \in {"loaded", "error"}

\* The capacity test of the cycle, on the rows generation 1 held at its start.
OverflowAtStart ==
  Cardinality(bStart.tables[1]) + Cardinality(bNew) > BATCH_SIZE

AllTables == DOMAIN tables = 1..NUM_BATCHES

\* The audit events appended since the cycle began.
NewEvents == SubSeq(events, Len(bStart.events) + 1, Len(events))
CountEvents(evs, type) == Cardinality({k \in 1..Len(evs) : evs[k].event_type = type})

\* C1: whenever a cycle finds that generation 1's rows plus the fetched rows
\* exceed the capacity, the cycle rotates exactly once and ends with the
\* former generation N as generation N+1 (N = 1..4) and with generation 1
\* holding exactly the fetched rows.
C1_RotationShiftsGenerations ==
  (CycleEnded /\ OverflowAtStart) =>
     /\ bRot = 1
     /\ AllTables
     /\ \A n \in 1..(NUM_BATCHES - 1) : tables[n + 1] = bStart.tables[n]
     /\ tables[1] = bNew

\* C2: no rotation fails or leaves a generation table missing, and after
\* five consecutive rotations the rows generation 1 held before the first
\* of them are in no generation.
C2_FiveRotationsEvict ==
  CycleEnded =>
     /\ bOutcome # "error"
     /\ AllTables
     /\ \A k \in 1..Len(rotHist) :
          Len(rotHist) >= k + NUM_BATCHES - 1 =>
             \A g \in DOMAIN tables : tables[g] \cap rotHist[k] = {}

\* C3: the audit log only grows, and a cycle that rotates appends exactly one
\* DELETED event carrying generation 5's prior row count, exactly four MOVED
\* events and exactly one LOADED event.
C3_AuditCompleteness ==
  /\ Len(bStart.events) <= Len(events)
  /\ SubSeq(events, 1, Len(bStart.events)) = bStart.events
  /\ (CycleEnded /\ bRot = 1) =>
        /\ CountEvents(NewEvents, "DELETED") = 1
        /\ \A k \in 1..Len(NewEvents) :
             NewEvents[k].event_type = "DELETED" =>
                NewEvents[k].count = (IF NUM_BATCHES \in DOMAIN bStart.tables
                                      THEN Cardinality(bStart.tables[NUM_BATCHES]) ELSE 0)
        /\ CountEvents(NewEvents, "MOVED") = NUM_BATCHES - 1
        /\ CountEvents(NewEvents, "LOADED") = 1

\* A write of add_logs_to_batch has been committed in the current/last cycle.
WriteCompleted == bpc = "add_event" \/ (bpc = "idle" /\ bOutcome = "loaded")

\* C4 as stated: after every completed write generation 1 holds at most
\* BATCH_SIZE rows.
C4_Gen1NeverAboveCapacity ==
  WriteCompleted => Cardinality(tables[1]) <= BATCH_SIZE

\* C4 as amended: after every completed write generation 1 holds at most
\* BATCH_SIZE rows, or it holds exactly the batch written by that cycle and
\* that batch alone is larger than BATCH_SIZE.
C4_Gen1WithinCapacityOrOneBatch ==
  WriteCompleted =>
     \/ Cardinality(tables[1]) <= BATCH_SIZE
     \/ (tables[1] = bNew /\ Cardinality(bNew) > BATCH_SIZE)

\* A write has completed that left more than BATCH_SIZE rows in generation 1.
C4_Witness ==
  /\ bpc = "idle" /\ bOutcome = "loaded"
  /\ Cardinality(tables[1]) > BATCH_SIZE
  /\ bRot = 1

\* C5: a cycle rotates at most once, and every row it fetched is in
\* generation 1 when it ends, however large the batch.
C5_OneRotationAllInserted ==
  CycleEnded =>
     /\ bRot <= 1
     /\ 1 \in DOMAIN tables
     /\ bNew \subseteq tables[1]

\* C8: a cycle that finds nothing beyond its cursor writes nothing: the clean
\* and group tables change only in a Consolidator cycle that found a raw id
\* above its cursor, and the generation tables, the metadata and the audit log
\* change only in a store cycle that found a clean id above its cursor.
C8_EmptyPollIsNoOp ==
  [][ /\ (clean' # clean \/ groups' # groups) => pBeyond'
      /\ (tables' # tables \/ meta' # meta \/ events' # events) => bBeyond' ]_vars

\* Both workers have polled with nothing new, after each had committed work.
C8_Witness ==
  /\ pOutcome = "noop" /\ ~pBeyond /\ clean # <<>>
  /\ bpc = "idle" /\ bOutcome = "noop" /\ ~bBeyond /\ events # <<>>

\* ------------------------------------------------------------------------
\* Properties of the Consolidator (checked under Spec)
\* ------------------------------------------------------------------------
\* All raw lines carry the same text and lie in one 10-second window.
SameLineOneWindow ==
  /\ raw # <<>>
  /\ \A i, j \in 1..Len(raw) :
       /\ raw[i].message = raw[j].message
       /\ raw[i].timestamp - raw[j].timestamp <= Window

\* Every raw line is at or below the cursor and no cycle is running.
AllConsumed ==
  /\ ppc = "idle"
  /\ \A i \in 1..Len(raw) : i <= last_processed(clean)

\* C6: when the same line was fed N times inside one window before the
\* Consolidator's first cycle (so that cycle counted all N), then once
\* every line is consumed the clean table holds exactly one row, of count N.
C6_SameLineOneCleanRecord ==
  (SameLineOneWindow /\ AllConsumed /\ clean # <<>> /\ clean[1].count = Len(raw)) =>
     Len(clean) = 1

\* C7: no raw record is reprocessed: each raw id is counted in the count of
\* at most one clean row.
C7_NoReprocessing ==
  \A i, j \in 1..Len(clean) :
     i # j => Range(clean[i].original_ids) \cap Range(clean[j].original_ids) = {}

\* C9: every group spans at most the window, both in context_groups and in
\* the partition a cycle computes; a group starts exactly where a record lies
\* more than the window after the start of the previous group, and every
\* record of a group is at most the window after the group's first record.
C9_GroupBoundary ==
  /\ \A g \in groups : g.last_seen - g.first_seen <= Window
  /\ \A k \in 1..Len(pAll) :
       /\ \A n \in 1..Len(pAll[k].recs) :
            /\ pAll[k].recs[n].timestamp >= pAll[k].recs[1].timestamp
            /\ pAll[k].recs[n].timestamp - pAll[k].recs[1].timestamp <= Window
       /\ k < Len(pAll) =>
            pAll[k + 1].recs[1].timestamp - pAll[k].recs[1].timestamp > Window

\* One cycle has put two records exactly 10.0s apart in one group and the
\* record 10.1s after the window start in the next group.
C9_Witness ==
  /\ pOutcome = "committed"
  /\ Len(pAll) = 2
  /\ \E g \in groups :
       /\ g.group_id = pAll[1].gid
       /\ g.last_seen - g.first_seen = Window
       /\ g.total_messages = 2
  /\ \E g \in groups :
       /\ g.group_id = pAll[2].gid
       /\ g.first_seen = pAll[1].recs[1].timestamp + Window + 1

\* C10: nothing a cycle writes is visible before its commit; the commit
\* makes all clean rows and all group rows of the cycle visible together; a
\* cycle that fails before the commit leaves clean, context_groups and the
\* cursor as they were, with every fetched raw record still above the cursor.
C10_CycleAtomic ==
  [][ /\ (ppc = "write" /\ ppc' = "write") =>
           (clean' = clean /\ groups' = groups)
      /\ (ppc = "write" /\ ppc' = "idle" /\ pOutcome' = "committed") =>
           /\ clean' = clean \o AllCleanRows(pAll)
           /\ groups' = UpsertAll(groups, AllGroupRows(pAll))
      /\ (ppc = "write" /\ ppc' = "idle" /\ pOutcome' = "failed") =>
           /\ clean' = clean
           /\ groups' = groups
           /\ last_processed(clean') = last_processed(clean)
           /\ \A k \in 1..Len(pRows) : pRows[k] > last_processed(clean') ]_vars

\* A cycle with at least two groups has written some of them, uncommitted,
\* on top of rows committed by an earlier cycle.
C10_Witness ==
  /\ ppc = "write"
  /\ txClean # <<>>
  /\ pPlan # <<>>
  /\ clean # <<>>

\* ------------------------------------------------------------------------
\* Atomicity and liveness of the store cycle (checked under SpecStore)
\* ------------------------------------------------------------------------
\* The committed state of the batch database is what it was when the
\* current/last store cycle began.
StoreAsAtCycleStart ==
  /\ tables = bStart.tables
  /\ meta = bStart.meta
  /\ events = bStart.events
  /\ last_id(tables) = last_id(bStart.tables)

\* C11: a store cycle that fails at any step (for instance on a duplicate
\* key) leaves the generation tables, the metadata, the audit log and the
\* cursor exactly as they were before the cycle.
C11_StoreCycleAllOrNothing ==
  (bpc = "idle" /\ bOutcome = "error") => StoreAsAtCycleStart

\* The highest clean id held by any generation.  The store loads clean rows
\* in id order, every row between its cursor and the newest one, so a row
\* has been inserted into generation 1 once a row of its id or a higher one
\* is held by a generation.
HighestLoaded == MaxOf({0} \cup UNION {tables[g] : g \in DOMAIN tables})

\* C12: under fair scheduling every committed clean row is eventually
\* inserted into generation 1, and after a cycle that ended in an error a
\* later cycle completes its load.
C12_EveryCleanRowLoaded ==
  /\ \A i \in 1..MaxRawStore : (Len(clean) >= i) ~> (i <= HighestLoaded)
  /\ (bpc = "idle" /\ bOutcome = "error") ~> (bpc = "idle" /\ bOutcome = "loaded")

\* ------------------------------------------------------------------------
\* Table ownership (checked under SpecStore)
\* ------------------------------------------------------------------------
\* C13: each table has one writer.  A step that changes raw_logs is a step
\* of ingestion and only appends a row; a step that changes clean or
\* context_groups is a step of the Consolidator; a step that changes a
\* generation table, batch_metadata or batch_events is a step of the store.
C13_SingleWriter ==
  [][ /\ (raw' # raw) =>
           /\ IngestSpaced
           /\ Len(raw') = Len(raw) + 1
           /\ SubSeq(raw', 1, Len(raw)) = raw
      /\ (clean' # clean \/ groups' # groups) => ProcessCycle
      /\ (tables' # tables \/ meta' # meta \/ events' # events) => StoreStep ]_vars

\* All three workers have written: raw lines were ingested, consolidated
\* and loaded, and the store has rotated at least once.
C13_Witness ==
  /\ Len(raw) >= 3
  /\ Len(clean) >= 3
  /\ Cardinality(groups) >= 3
  /\ Len(rotHist) >= 1
  /\ bpc = "idle" /\ bOutcome = "loaded"

\* ------------------------------------------------------------------------
\* Properties of masking and extraction (checked under SpecMask)
\* ------------------------------------------------------------------------
\* The placeholder that starts at position pos of s, if any.
PlaceholderAt(s, pos) ==
  {n \in Range(PatternNames) :
     SubSeq(s, pos, Min2(Len(s), pos + Len(Placeholder(n)) - 1)) = Placeholder(n)}

\* The placeholders of s, left to right.
RECURSIVE PlaceholderSeq(_, _)
PlaceholderSeq(s, pos) ==
  LET starts == {q \in pos..Len(s) : PlaceholderAt(s, q) # {}}
  IN IF starts = {} THEN <<>>
     ELSE LET n == CHOOSE n \in PlaceholderAt(s, MinOf(starts)) : TRUE
          IN <<n>> \o PlaceholderSeq(s, MinOf(starts) + Len(Placeholder(n)))

CountOf(seq, x) == Cardinality({k \in 1..Len(seq) : seq[k] = x})

\* C14: the masked form of "Backup at 2024-01-02 03:04:05 copied 10 files
\* from /var/log/app to 192.168.1.1" holds exactly one <TIME>, one <PATH>,
\* one <IP> and one <NUM>, and no other placeholder.
C14_ExampleLineMasked ==
  (mMsg = ExampleLine /\ mpc # "line") =>
     LET ph == PlaceholderSeq(mMasked, 1) IN
       /\ CountOf(ph, "TIME") = 1
       /\ CountOf(ph, "PATH") = 1
       /\ CountOf(ph, "IP") = 1
       /\ CountOf(ph, "NUM") = 1
       /\ Len(ph) = 4


\* C15: extract_params returns the parameters by ascending start offset,
\* and their types are, position by position, the placeholders of
\* mask_message's result from left to right.
C15_ParamsFollowPlaceholders ==
  (mpc = "done") =>
     /\ \A k \in 1..(Len(sorted_matches(mMsg)) - 1) :
          sorted_matches(mMsg)[k].start <= sorted_matches(mMsg)[k + 1].start
     /\ [k \in 1..Len(mParams) |-> mParams[k].type] = PlaceholderSeq(mMasked, 1)

\* ------------------------------------------------------------------------
\* Groups and their clean rows (checked under Spec)
\* ------------------------------------------------------------------------
\* The ids of the clean rows of group gid.
RowsOfGroup(gid) == {i \in 1..Len(clean) : clean[i].group_id = gid}

RECURSIVE SumCount(_)
SumCount(S) ==
  IF S = {} THEN 0
  ELSE LET i == CHOOSE i \in S : TRUE IN clean[i].count + SumCount(S \ {i})

\* C16: for every row of context_groups, total_messages is the sum of count
\* over the clean rows of that group, unique_templates is the number of
\* those rows, and no two of them have the same (template_id, template,
\* params).
C16_GroupSummaryMatchesRows ==
  \A g \in groups :
     /\ g.total_messages = SumCount(RowsOfGroup(g.group_id))
     /\ g.unique_templates = Cardinality(RowsOfGroup(g.group_id))
     /\ \A i, j \in RowsOfGroup(g.group_id) :
          i # j => DedupKey(clean[i]) # DedupKey(clean[j])

\* A committed group holds three messages in two clean rows, one of them
\* counting two identical lines.
C16_Witness ==
  /\ pOutcome = "committed"
  /\ \E g \in groups :
       /\ g.total_messages = 3
       /\ g.unique_templates = 2
       /\ \E i \in RowsOfGroup(g.group_id) : clean[i].count = 2


\* C17: group ids only grow.  The groups a cycle computes carry consecutive
\* ids, every group a commit adds has an id above every id stored before,
\* and no stored group row is replaced or removed.
C17_GroupIdsIncrease ==
  [][ /\ \A k \in 1..(Len(pAll') - 1) : pAll'[k + 1].gid = pAll'[k].gid + 1
      /\ groups \subseteq groups'
      /\ \A g \in groups' \ groups : \A h \in groups : g.group_id > h.group_id ]_vars

\* Two cycles have committed groups: the first cycle's group and, from a
\* later cycle, at least two more.
C17_Witness ==
  /\ pOutcome = "committed"
  /\ Len(pAll) >= 2
  /\ \E g \in groups : \A k \in 1..Len(pAll) : g.group_id < pAll[k].gid
  /\ \A k \in 1..Len(pAll) : \E g \in groups : g.group_id = pAll[k].gid

\* ------------------------------------------------------------------------
\* Metadata and frozen generations (checked under SpecStore)
\* ------------------------------------------------------------------------
\* C18: when a store cycle has ended, every generation 1..5 exists and its
\* metadata row carries the number of rows of its table (no row, or a count
\* of 0, for an empty table): no metadata row describes a dropped table.
C18_MetadataMatchesTables ==
  CycleEnded =>
     \A b \in 1..NUM_BATCHES :
        /\ b \in DOMAIN tables
        /\ log_count(meta, b) = Cardinality(tables[b])

\* ------------------------------------------------------------------------
\* No record is lost in a cycle (checked under SpecParse)
\* ------------------------------------------------------------------------
RECURSIVE SumSeq(_)
SumSeq(s) == IF s = <<>> THEN 0 ELSE Head(s) + SumSeq(Tail(s))

\* The clean rows the last committed cycle appended.
WrittenClean ==
  SubSeq(clean, Len(clean) - Len(AllCleanRows(pAll)) + 1, Len(clean))

\* The context_groups rows the last committed cycle wrote.
WrittenGroups == {g \in groups : \E k \in 1..Len(pAll) : g.group_id = pAll[k].gid}

RECURSIVE SumTotal(_)
SumTotal(S) ==
  IF S = {} THEN 0
  ELSE LET g == CHOOSE g \in S : TRUE IN g.total_messages + SumTotal(S \ {g})

\* C19: when a cycle has committed, the counts of the clean rows it wrote
\* and the total_messages of the groups it wrote both add up to the number
\* of raw rows it fetched, and every fetched row whose timestamp could not
\* be parsed lies, at the time of processing, in one of those clean rows.
C19_NoFetchedRecordDropped ==
  (ppc = "idle" /\ pOutcome = "committed") =>
     /\ SumSeq([k \in 1..Len(WrittenClean) |-> WrittenClean[k].count]) = Len(pRows)
     /\ SumTotal(WrittenGroups) = Len(pRows)
     /\ \A n \in 1..Len(pRows) :
          /\ \E k \in 1..Len(WrittenClean) : pRows[n] \in Range(WrittenClean[k].original_ids)
          /\ raw[pRows[n]].timestamp = BadTime =>
               \E k \in 1..Len(WrittenClean), now \in EpochSeconds :
                  /\ pRows[n] \in Range(WrittenClean[k].original_ids)
                  /\ WrittenClean[k].last_seen = NowTicks(now)

\* A cycle has committed three fetched rows, one with an unparsable
\* timestamp and two identical lines counted in one clean row.
C19_Witness ==
  /\ ppc = "idle" /\ pOutcome = "committed"
  /\ Len(pRows) = 3
  /\ \E n \in 1..Len(pRows) : raw[pRows[n]].timestamp = BadTime
  /\ \E n \in 1..Len(pRows) : raw[pRows[n]].timestamp # BadTime
  /\ \E k \in 1..Len(WrittenClean) : WrittenClean[k].count = 2


\* The rows of generation n, or the empty set while its table is missing.
GenRows(tb, n) == IF n \in DOMAIN tb THEN tb[n] ELSE {}

\* C20: generations 2..5 are frozen.  A step changes generation n (2..5)
\* only by the relabel step of a rotation (the table of n-1 becomes the
\* table of n, or the table of n becomes the table of n+1) or by dropping
\* generation 5; no step adds a row to or removes a row from a table that
\* stays generation n.
C20_OlderGenerationsFrozen ==
  [][ \A n \in 2..NUM_BATCHES :
        \/ /\ (n \in DOMAIN tables) = (n \in DOMAIN tables')
           /\ GenRows(tables', n) = GenRows(tables, n)
        \/ /\ n \notin DOMAIN tables /\ n \in DOMAIN tables'
           /\ (n - 1) \in DOMAIN tables /\ (n - 1) \notin DOMAIN tables'
           /\ tables'[n] = tables[n - 1]
        \/ /\ n \in DOMAIN tables /\ n \notin DOMAIN tables'
           /\ n < NUM_BATCHES
           /\ (n + 1) \in DOMAIN tables'
           /\ tables'[n + 1] = tables[n]
        \/ /\ n = NUM_BATCHES
           /\ n \in DOMAIN tables /\ n \notin DOMAIN tables'
           /\ bpc = "shift_drop" ]_vars

\* After two rotations generations 2 and 3 hold rows and a further load
\* into generation 1 has completed.
C20_Witness ==
  /\ bpc = "idle" /\ bOutcome = "loaded" /\ bRot = 0
  /\ Len(rotHist) >= 2
  /\ AllTables
  /\ tables[2] # {} /\ tables[3] # {} /\ tables[1] # {}

\* ------------------------------------------------------------------------
\* Loading at most once (checked under SpecRestart)
\* ------------------------------------------------------------------------
\* No clean id is held by two generations.  (Within one generation clean_id
\* is the primary key.)
NoIdInTwoGenerations ==
  \A g \in DOMAIN tables : \A h \in DOMAIN tables :
    g # h => tables[g] \cap tables[h] = {}

\* The step leaves the store at the end of a cycle that ran to its end:
\* nothing to load, or the load and its LOADED event.
CycleCompleted == bpc' = "idle" /\ bOutcome' \in {"loaded", "noop"}

\* C21: the store loads each clean row at most once, also after a cycle
\* failed or the program stopped between the rotation and the load: no
\* clean id is held by two generations, the rows the store is about to
\* insert are not in generation 1, and the cursor at the end of a completed
\* cycle is not below the cursor at the end of the completed cycle before.
C21_LoadedAtMostOnce ==
  /\ [](NoIdInTwoGenerations)
  /\ []((bpc = "add" /\ 1 \in DOMAIN tables) => bNew \cap tables[1] = {})
  /\ [][CycleCompleted => last_id(tables') >= bCursor]_vars

\* ------------------------------------------------------------------------
\* No raw record skipped (checked under Spec)
\* ------------------------------------------------------------------------
\* The raw ids counted in some committed clean row.
CountedRaw == UNION {Range(clean[k].original_ids) : k \in 1..Len(clean)}

\* C22: the Consolidator never skips a raw record: every raw row whose id is
\* at most the Consolidator's cursor has been counted in some clean row,
\* also when more rows are pending than one cycle fetches and their
\* timestamp order differs from their id order.
C22_NoRawRecordSkipped ==
  \A i \in 1..Len(raw) : i <= last_processed(clean) => i \in CountedRaw
====
